---- MODULE Spec2Model ----
(***************************************************************************)
(* Model of src/src/csvreader.rs: one call of read_csv::<T>(filename),     *)
(* with read_to_lines inlined at its call site (line 48).                  *)
(*                                                                         *)
(* Text is a sequence of one-character strings.  The file is a byte        *)
(* sequence over Bytes; "?" stands for a byte that is not valid UTF-8.     *)
(* Rust indexes lines from 0 (lines[0] is the header); sequences here are  *)
(* 1-based, so Rust's lines[k] is lines[k + 1] and the loop variable i     *)
(* (1 .. lines.len() - 1) keeps the values it has in the source.           *)
(*                                                                         *)
(* Not in the alphabet: carriage returns (lines() also strips "\r\n") and  *)
(* signs in front of digits.  T is known by which tokens its from_str      *)
(* reads; values are small enough never to overflow an i32.                *)
(***************************************************************************)
EXTENDS Naturals, Sequences, FiniteSets

VARIABLES
    fsKind,     \* what the path names: "missing", "file", "dir", "denied", "vanishing"
    bytes,      \* content of the file when fsKind = "file"
    T,          \* the caller's cell type, by its FromStr behaviour
    pc,         \* position of the call
    opens,      \* number of open() calls made so far
    handles,    \* number of file handles currently open
    rest,       \* bytes the BufReader has not consumed yet
    raw,        \* line 95: the Vec<io::Result<String>> under construction
    lines,      \* line 48: the Vec<String> read_to_lines returned
    header,     \* line 54
    data,       \* line 55
    i,          \* line 57: loop variable
    parsed,     \* line 61: the tokens handed to T's from_str so far, in order
    result      \* what read_csv returned

vars == <<fsKind, bytes, T, pc, opens, handles, rest, raw, lines, header, data, i, parsed, result>>

\* The longest file considered, in bytes.
MaxFileLen == 5
\* Number of io::Result entries the Vec of line 95 can hold before the
\* allocator gives up; always above the number of lines of any file modelled.
MemCap == MaxFileLen + 2

Comma == ","
Newline == "\n"
BadByte == "?"
Bytes == {Comma, Newline, "1", "x", BadByte}
Kinds == {"missing", "file", "dir", "denied", "vanishing"}
Types == {"i32", "opt"}

RECURSIVE SeqsUpTo(_)
SeqsUpTo(n) ==
    IF n = 0 THEN {<<>>}
    ELSE LET S == SeqsUpTo(n - 1)
         IN S \cup {Append(s, b) : s \in {t \in S : Len(t) = n - 1}, b \in Bytes}

Files == SeqsUpTo(MaxFileLen)

----------------------------------------------------------------------------
(* Library behaviour the code relies on. *)

\* Split as str::split_terminator would do it: an empty last token is dropped,
\* so the empty string has no token at all.
RECURSIVE SplitTerminator(_)
SplitTerminator(s) ==
    IF s = <<>> THEN <<>>
    ELSE LET r == SplitTerminator(Tail(s))
         IN IF Head(s) = Comma THEN << <<>> >> \o r
            ELSE IF r = <<>> THEN << <<Head(s)>> >>
            ELSE << <<Head(s)>> \o r[1] >> \o Tail(r)

\* str::split(","): the tokens between commas; at least one token, the empty
\* string splits into one empty token.
RECURSIVE Split(_)
Split(s) ==
    IF s = <<>> THEN << <<>> >>
    ELSE LET r == Split(Tail(s))
         IN IF Head(s) = Comma
            THEN << <<>> >> \o r
            ELSE << <<Head(s)>> \o r[1] >> \o Tail(r)

\* BufRead::read_line: the bytes up to (not including) the next newline.
RECURSIVE TakeLine(_)
TakeLine(s) ==
    IF s = <<>> \/ Head(s) = Newline THEN <<>>
    ELSE <<Head(s)>> \o TakeLine(Tail(s))

\* What read_line leaves unread: everything after the newline it consumed.
RECURSIVE DropLine(_)
DropLine(s) ==
    IF s = <<>> THEN <<>>
    ELSE IF Head(s) = Newline THEN Tail(s)
    ELSE DropLine(Tail(s))

\* read_line fails with InvalidData when the line is not valid UTF-8.
Decodable(line) == \A k \in 1..Len(line) : line[k] # BadByte

\* <T as FromStr>::from_str succeeds.  "i32": a non-empty run of digits.
\* "opt": a caller-defined type that in addition reads "" as its default.
AllDigits(tok) == \A k \in 1..Len(tok) : tok[k] = "1"
CanParse(ty, tok) ==
    IF ty = "i32" THEN tok # <<>> /\ AllDigits(tok)
    ELSE AllDigits(tok)

\* The value from_str yields for a token it accepts.
RECURSIVE ParseValue(_)
ParseValue(tok) ==
    IF tok = <<>> THEN 0
    ELSE 10 * ParseValue(SubSeq(tok, 1, Len(tok) - 1)) + 1

----------------------------------------------------------------------------
(* Values returned. *)

NoResult ==
    [kind |-> "None", cause |-> <<>>, src |-> 0, line_num |-> 0,
     num_entries |-> 0, header |-> <<>>, data |-> <<>>]

Err(kind) == [NoResult EXCEPT !.kind = kind]

\* An entry of the Vec of line 95.  src is the position of the entry, which
\* tells one io::Error value from another.
OkLine(text) == [ok |-> TRUE, text |-> text, cause |-> <<>>, src |-> 0]
ErrLine(cause, n) == [ok |-> FALSE, text |-> <<>>, cause |-> <<cause>>, src |-> n]

Init ==
    /\ fsKind \in Kinds
    /\ bytes \in Files
    /\ (fsKind # "file" => bytes = <<>>)
    /\ T \in Types
    /\ pc = "call"
    /\ opens = 0
    /\ handles = 0
    /\ rest = <<>>
    /\ raw = <<>>
    /\ lines = <<>>
    /\ header = <<>>
    /\ data = <<>>
    /\ i = 0
    /\ parsed = <<>>
    /\ result = NoResult

Fail(r) ==
    /\ pc' = "Failed"
    /\ result' = r

----------------------------------------------------------------------------
(* read_to_lines *)

\* Lines 89-93: the existence check.
PathExists == fsKind # "missing"

\* CheckExists without the check: the call goes straight to open().
CheckExistsSkipped ==
    /\ pc = "call"
    /\ pc' = "open"
    /\ UNCHANGED <<fsKind, bytes, T, opens, handles, rest, raw, lines, header, data, i, parsed, result>>

CheckExists ==
    /\ pc = "call"
    /\ IF PathExists
       THEN /\ pc' = "open"
            /\ UNCHANGED result
       ELSE Fail(Err("FileNonExistant"))
    /\ UNCHANGED <<fsKind, bytes, T, opens, handles, rest, raw, lines, header, data, i, parsed>>

\* Line 94 with the From impl of lines 33-37: open the file for reading.
\* A directory opens on Unix and is refused on Windows.
OpenOutcomes ==
    CASE fsKind = "file" -> {"opened"}
      [] fsKind = "dir" -> {"opened", "PermissionDenied"}
      [] fsKind = "denied" -> {"PermissionDenied"}
      [] fsKind = "vanishing" -> {"NotFound"}
      [] OTHER -> {"NotFound"}

FromIoError(cause) == [Err("CouldNotOpenFile") EXCEPT !.cause = <<cause>>]

OpenFile ==
    /\ pc = "open"
    /\ opens' = opens + 1
    /\ \E o \in OpenOutcomes :
         IF o = "opened"
         THEN /\ handles' = handles + 1
              /\ rest' = bytes
              /\ pc' = "read"
              /\ UNCHANGED result
         ELSE /\ Fail(FromIoError(o))
              /\ UNCHANGED <<handles, rest>>
    /\ UNCHANGED <<fsKind, bytes, T, raw, lines, header, data, i, parsed>>

\* Line 95, one turn of collect() over lines(): read_line returned a line,
\* decoded or not; either way its bytes are consumed.
LineResult(line, n) ==
    IF Decodable(line) THEN OkLine(line) ELSE ErrLine("InvalidData", n)

ReadLine ==
    /\ pc = "read"
    /\ fsKind = "file"
    /\ rest # <<>>
    /\ raw' = Append(raw, LineResult(TakeLine(rest), Len(raw) + 1))
    /\ rest' = DropLine(rest)
    /\ UNCHANGED <<fsKind, bytes, T, pc, opens, handles, lines, header, data, i, parsed, result>>

\* ReadEof with the File kept alive beyond the statement.
ReadEofLeak ==
    /\ pc = "read"
    /\ fsKind = "file"
    /\ rest = <<>>
    /\ pc' = "collect"
    /\ UNCHANGED <<fsKind, bytes, T, opens, handles, rest, raw, lines, header, data, i, parsed, result>>

\* Line 95: read_line returned Ok(0), lines() ends, collect() returns and the
\* BufReader with the File inside it is dropped at the end of the statement.
ReadEof ==
    /\ pc = "read"
    /\ fsKind = "file"
    /\ rest = <<>>
    /\ handles' = handles - 1
    /\ pc' = "collect"
    /\ UNCHANGED <<fsKind, bytes, T, opens, rest, raw, lines, header, data, i, parsed, result>>

\* Line 95 on an opened directory: every read fails with EISDIR and consumes
\* nothing, lines() yields Some(Err(e)) each time and collect() pushes it.
ReadDirError ==
    /\ pc = "read"
    /\ fsKind = "dir"
    /\ Len(raw) < MemCap
    /\ raw' = Append(raw, ErrLine("IsADirectory", Len(raw) + 1))
    /\ UNCHANGED <<fsKind, bytes, T, pc, opens, handles, rest, lines, header, data, i, parsed, result>>

\* Line 95: the Vec cannot grow any further; the allocation failure aborts the
\* process, read_csv returns nothing.
AllocFail ==
    /\ pc = "read"
    /\ Len(raw) >= MemCap
    /\ pc' = "Aborted"
    /\ UNCHANGED <<fsKind, bytes, T, opens, handles, rest, raw, lines, header, data, i, parsed, result>>

\* collect::<Result<_>>() stops at the first Err of the sequence: its position,
\* 0 when every entry is Ok.
RECURSIVE FirstErrFrom(_, _)
FirstErrFrom(v, k) ==
    IF k > Len(v) THEN 0
    ELSE IF ~v[k].ok THEN k
    ELSE FirstErrFrom(v, k + 1)

\* FirstErr reporting the last Err of the sequence instead of the first.
LastErr(v) ==
    IF \A k \in 1..Len(v) : v[k].ok THEN 0
    ELSE CHOOSE k \in 1..Len(v) : ~v[k].ok /\ \A j \in (k + 1)..Len(v) : v[j].ok

FirstErr(v) == FirstErrFrom(v, 1)

\* Line 99: the closure that wraps an io::Error.
CouldNotParseLine(e) ==
    [Err("CouldNotParseLine") EXCEPT !.cause = e.cause, !.src = e.src]

\* MapLines keeping the lines that decoded and dropping the others.
MapLinesSkipBad ==
    /\ pc = "collect"
    /\ lines' = LET good == SelectSeq(raw, LAMBDA e : e.ok)
                IN [k \in 1..Len(good) |-> good[k].text]
    /\ pc' = "loaded"
    /\ UNCHANGED <<fsKind, bytes, T, opens, handles, rest, raw, header, data, i, parsed, result>>

\* Lines 97-100, and the ? of line 48 on the value returned.
MapLines ==
    /\ pc = "collect"
    /\ LET bad == FirstErr(raw)
       IN IF bad = 0
          THEN /\ lines' = [k \in 1..Len(raw) |-> raw[k].text]
               /\ pc' = "loaded"
               /\ UNCHANGED result
          ELSE /\ Fail(CouldNotParseLine(raw[bad]))
               /\ UNCHANGED lines
    /\ UNCHANGED <<fsKind, bytes, T, opens, handles, rest, raw, header, data, i, parsed>>

----------------------------------------------------------------------------
(* read_csv *)

\* CheckEmpty taking a file with nothing but a header for an empty one.
CheckEmptyHeaderOnly ==
    /\ pc = "loaded"
    /\ IF Len(lines) <= 1
       THEN Fail(Err("FileIsEmpty"))
       ELSE /\ pc' = "header"
            /\ UNCHANGED result
    /\ UNCHANGED <<fsKind, bytes, T, opens, handles, rest, raw, lines, header, data, i, parsed>>

\* Lines 50-52.
CheckEmpty ==
    /\ pc = "loaded"
    /\ IF lines = <<>>
       THEN Fail(Err("FileIsEmpty"))
       ELSE /\ pc' = "header"
            /\ UNCHANGED result
    /\ UNCHANGED <<fsKind, bytes, T, opens, handles, rest, raw, lines, header, data, i, parsed>>

\* Lines 54-55, and the loop of line 57 taking its first value.
ParseHeader ==
    /\ pc = "header"
    /\ header' = Split(lines[1])
    /\ data' = <<>>
    /\ i' = 1
    /\ pc' = "rows"
    /\ UNCHANGED <<fsKind, bytes, T, opens, handles, rest, raw, lines, parsed, result>>

\* Lines 58-65: every token of the line, parsed or turned into the error
\* that carries its text.
ParseEntries(ty, toks) ==
    [k \in 1..Len(toks) |->
        IF CanParse(ty, toks[k])
        THEN [ok |-> TRUE, val |-> ParseValue(toks[k]), text |-> <<>>]
        ELSE [ok |-> FALSE, val |-> 0, text |-> toks[k]]]

CouldNotParseValue(e) == [Err("CouldNotParseValue") EXCEPT !.cause = e.text]

\* WidthVerdict with the equality test written as "at most".
WidthVerdictAtMost(n, w) ==
    IF n <= w THEN "push"
    ELSE IF n < w THEN "LineTooShort"
    ELSE "LineTooLong"

\* Lines 69-82: what the width of a parsed line leads to.
WidthVerdict(n, w) ==
    IF n = w THEN "push"
    ELSE IF n < w THEN "LineTooShort"
    ELSE "LineTooLong"

\* LineLenError reporting the index into the file, header counted.
LineLenErrorFromHeader(kind, line, n) ==
    [Err(kind) EXCEPT !.line_num = line + 1, !.num_entries = n]

\* Lines 73-76 and 78-81.
LineLenError(kind, line, n) ==
    [Err(kind) EXCEPT !.line_num = line, !.num_entries = n]

\* ParseRow as a best-effort collector: a line that fails is recorded and the
\* loop goes on to the next one.
ParseRowKeepGoing ==
    /\ pc = "rows"
    /\ i < Len(lines)
    /\ parsed' = parsed \o Split(lines[i + 1])
    /\ i' = i + 1
    /\ LET entries == ParseEntries(T, Split(lines[i + 1]))
           bad == FirstErr(entries)
           verdict == WidthVerdict(Len(entries), Len(header))
       IN IF bad # 0
          THEN /\ result' = CouldNotParseValue(entries[bad])
               /\ UNCHANGED <<data, pc>>
          ELSE IF verdict = "push"
          THEN /\ data' = Append(data, [k \in 1..Len(entries) |-> entries[k].val])
               /\ UNCHANGED <<pc, result>>
          ELSE /\ result' = LineLenError(verdict, i, Len(entries))
               /\ UNCHANGED <<data, pc>>
    /\ UNCHANGED <<fsKind, bytes, T, opens, handles, rest, raw, lines, header>>

\* Lines 57-83: one turn of the loop.
ParseRow ==
    /\ pc = "rows"
    /\ i < Len(lines)
    /\ parsed' = parsed \o Split(lines[i + 1])
    /\ LET entries == ParseEntries(T, Split(lines[i + 1]))
           bad == FirstErr(entries)
           verdict == WidthVerdict(Len(entries), Len(header))
       IN IF bad # 0
          THEN /\ Fail(CouldNotParseValue(entries[bad]))
               /\ UNCHANGED <<data, i>>
          ELSE IF verdict = "push"
          THEN /\ data' = Append(data, [k \in 1..Len(entries) |-> entries[k].val])
               /\ i' = i + 1
               /\ UNCHANGED <<pc, result>>
          ELSE /\ Fail(LineLenError(verdict, i, Len(entries)))
               /\ UNCHANGED <<data, i>>
    /\ UNCHANGED <<fsKind, bytes, T, opens, handles, rest, raw, lines, header>>

\* Line 85, reached when the range of line 57 is exhausted.
ReturnOk ==
    /\ pc = "rows"
    /\ i >= Len(lines)
    /\ pc' = "Done"
    /\ result' = [NoResult EXCEPT !.kind = "Ok", !.header = header, !.data = data]
    /\ UNCHANGED <<fsKind, bytes, T, opens, handles, rest, raw, lines, header, data, i, parsed>>

Next ==
    \/ CheckExists
    \/ OpenFile
    \/ ReadLine
    \/ ReadEof
    \/ ReadDirError
    \/ AllocFail
    \/ MapLines
    \/ CheckEmpty
    \/ ParseHeader
    \/ ParseRow
    \/ ReturnOk

Spec == Init /\ [][Next]_vars

\* The call is one synchronous call stack: it keeps running while it can.
FairSpec == Init /\ [][Next]_vars /\ WF_vars(Next)

----------------------------------------------------------------------------
(* Properties *)

RowErrors == {"CouldNotParseValue", "LineTooShort", "LineTooLong"}
LoadErrors == {"FileNonExistant", "CouldNotOpenFile", "CouldNotParseLine"}

\* The number of comma-separated fields of a line, counted on the text.
TokenCount(line) == Cardinality({k \in 1..Len(line) : line[k] = Comma}) + 1

\* Every token of the line is one T reads.
AllParse(ty, line) ==
    \A k \in 1..Len(Split(line)) : CanParse(ty, Split(line)[k])

\* The loop of line 57 is about to take data line i.
AtRow == pc = "rows" /\ i < Len(lines)

\* C1: the rows collected so far all have the width of the header, at every
\* turn of the loop, and a table returned has one row per line after the
\* header, each as wide as the header.
C1_Rectangular ==
    /\ \A r \in 1..Len(data) : Len(data[r]) = Len(header)
    /\ result.kind = "Ok" =>
         /\ Len(result.data) = Len(lines) - 1
         /\ \A r \in 1..Len(result.data) : Len(result.data[r]) = Len(result.header)

C1_Witness ==
    /\ result.kind = "Ok"
    /\ Len(result.data) >= 2
    /\ Len(result.header) >= 2

\* What a turn of the loop does with a data line whose tokens all parse.
C2_Step ==
    (AtRow /\ AllParse(T, lines[i + 1])) =>
        LET n == TokenCount(lines[i + 1])
            w == TokenCount(lines[1])
        IN /\ i = Len(data) + 1
           /\ n < w => /\ pc' = "Failed"
                       /\ result' = [Err("LineTooShort") EXCEPT !.line_num = i, !.num_entries = n]
           /\ n > w => /\ pc' = "Failed"
                       /\ result' = [Err("LineTooLong") EXCEPT !.line_num = i, !.num_entries = n]
           /\ n = w <=> (Len(data') = Len(data) + 1 /\ pc' = "rows" /\ result' = NoResult)

\* C2: a turn of the loop on data line i whose tokens all parse, n fields
\* against a header of w: n < w fails with LineTooShort{i, n}, n > w fails with
\* LineTooLong{i, n}, and the row is appended exactly when n = w.  i is the
\* 1-based position of the line among the data lines.
C2_RowWidth == [][C2_Step]_vars

C2_Witness ==
    /\ result.kind = "LineTooLong"
    /\ result.line_num = 2
    /\ Len(data) = 1

\* The leftmost token of toks that T cannot read.
LeftmostBad(ty, toks) ==
    toks[CHOOSE k \in 1..Len(toks) :
            ~CanParse(ty, toks[k]) /\ \A j \in 1..(k - 1) : CanParse(ty, toks[j])]

C3_Step ==
    (AtRow /\ ~AllParse(T, lines[i + 1])) =>
        /\ pc' = "Failed"
        /\ result' = [Err("CouldNotParseValue") EXCEPT
                        !.cause = LeftmostBad(T, Split(lines[i + 1]))]

\* C3: a turn of the loop on a data line with a token T cannot read fails
\* with CouldNotParseValue carrying the leftmost such token, whatever the
\* number of tokens of the line.
C3_ParseFirst == [][C3_Step]_vars

\* The failing line has the wrong width and two unreadable tokens of
\* different text.
C3_Witness ==
    /\ result.kind = "CouldNotParseValue"
    /\ LET toks == Split(lines[i + 1])
       IN /\ Len(toks) # Len(header)
          /\ \E j, k \in 1..Len(toks) :
                /\ j < k
                /\ ~CanParse(T, toks[j])
                /\ ~CanParse(T, toks[k])
                /\ toks[j] # toks[k]

\* The stages of a call.  The call is in Start until the header is split; a
\* process killed while loading never left Start.
Stage ==
    CASE pc = "rows" /\ data = <<>> -> "HeaderParsed"
      [] pc = "rows" /\ data # <<>> -> "RowAccepted"
      [] pc = "Done" -> "Done"
      [] pc = "Failed" -> "Failed"
      [] OTHER -> "Start"

StageMoves ==
    {<<"Start", "Start">>, <<"Start", "HeaderParsed">>, <<"Start", "Failed">>,
     <<"HeaderParsed", "RowAccepted">>, <<"HeaderParsed", "Done">>,
     <<"HeaderParsed", "Failed">>,
     <<"RowAccepted", "RowAccepted">>, <<"RowAccepted", "Done">>,
     <<"RowAccepted", "Failed">>}

\* A data line the loop cannot accept, told from its text and the header line.
Offending(line) ==
    ~AllParse(T, line) \/ TokenCount(line) # TokenCount(lines[1])

\* The error of an offending data line at position k.
ErrorOf(line, k) ==
    IF ~AllParse(T, line)
    THEN [Err("CouldNotParseValue") EXCEPT !.cause = LeftmostBad(T, Split(line))]
    ELSE IF TokenCount(line) < TokenCount(lines[1])
    THEN [Err("LineTooShort") EXCEPT !.line_num = k, !.num_entries = TokenCount(line)]
    ELSE [Err("LineTooLong") EXCEPT !.line_num = k, !.num_entries = TokenCount(line)]

C4_Inv ==
    /\ pc \in {"Done", "Failed"} => ~ENABLED Next
    /\ pc = "Done" <=> result.kind = "Ok"
    /\ pc = "Failed" <=> result.kind \notin {"Ok", "None"}
    /\ pc = "Failed" => result.header = <<>> /\ result.data = <<>>
    /\ pc = "Done" => \A k \in 2..Len(lines) : ~Offending(lines[k])
    /\ result.kind \in RowErrors =>
         /\ i \in 1..(Len(lines) - 1)
         /\ Len(data) = i - 1
         /\ \A j \in 1..(i - 1) : ~Offending(lines[j + 1])
         /\ Offending(lines[i + 1])
         /\ result = ErrorOf(lines[i + 1], i)

C4_Step == <<Stage, Stage'>> \in StageMoves

\* C4: stages follow Start -> HeaderParsed -> RowAccepted* -> Done with
\* Failed reachable from each of them; nothing is enabled in Done or Failed;
\* an error of the row loop is the error of the first offending data line,
\* lines after it play no part; an error comes with no header and no rows.
C4_StateMachine == [](C4_Inv) /\ [][C4_Step]_vars

\* The call failed on data line 1, and data line 2, never looked at, is
\* offending as well.
C4_Witness ==
    /\ pc = "Failed"
    /\ result.kind \in RowErrors
    /\ i = 1
    /\ Len(lines) >= 3
    /\ Offending(lines[3])
    /\ ErrorOf(lines[3], 2) # result

\* Text put back together from its pieces.
RECURSIVE JoinWith(_, _)
JoinWith(pieces, sep) ==
    IF pieces = <<>> THEN <<>>
    ELSE IF Len(pieces) = 1 THEN pieces[1]
    ELSE pieces[1] \o <<sep>> \o JoinWith(Tail(pieces), sep)

Loading == pc \in {"call", "open", "read", "collect", "Aborted"}
Returned == pc \in {"Done", "Failed"}

\* C5: no line at all fails with FileIsEmpty; exactly one line succeeds with
\* no rows and the comma-separated pieces of that line as header; the header
\* is split without a single call of T's from_str.
C5_HeaderOnly ==
    /\ (Returned /\ result.kind \notin LoadErrors /\ Len(lines) = 0) =>
         result = Err("FileIsEmpty")
    /\ (Returned /\ Len(lines) = 1) =>
         /\ result.kind = "Ok"
         /\ result.data = <<>>
         /\ JoinWith(result.header, Comma) = lines[1]
         /\ \A k \in 1..Len(result.header) :
               \A c \in 1..Len(result.header[k]) : result.header[k][c] # Comma
         /\ parsed = <<>>
    /\ (pc = "rows" /\ i = 1) => parsed = <<>>

C5_Witness ==
    /\ pc = "Done"
    /\ Len(lines) = 1
    /\ ~AllParse(T, lines[1])
    /\ Len(result.header) >= 2

\* What holds of a missing path and of the number of open() calls.
C6_Inv ==
    /\ (fsKind = "missing" /\ pc # "call") =>
         (pc = "Failed" /\ result = Err("FileNonExistant") /\ opens = 0)
    /\ result.kind = "FileNonExistant" => (fsKind = "missing" /\ opens = 0)
    /\ opens > 0 => fsKind # "missing"

\* What a step that calls open() looks like.
C6_Step ==
    opens' # opens =>
        /\ pc = "open"
        /\ opens' = opens + 1
        /\ handles' = handles =>
             /\ pc' = "Failed"
             /\ result' = [Err("CouldNotOpenFile") EXCEPT !.cause =
                             <<IF fsKind = "vanishing" THEN "NotFound" ELSE "PermissionDenied">>]
        /\ handles' # handles => (pc' = "read" /\ result' = NoResult)

\* C6: a missing path fails with FileNonExistant without any open(); open()
\* is called only after the existence check passed; a failing open() is
\* reported as CouldNotOpenFile with its cause, also when the cause is that
\* the file is gone.
C6_ExistsBeforeOpen == [](C6_Inv) /\ [][C6_Step]_vars

C6_Witness ==
    /\ fsKind = "vanishing"
    /\ opens = 1
    /\ result.kind = "CouldNotOpenFile"
    /\ result.cause = <<"NotFound">>

\* C7: never more than one handle, never more than one open(); once
\* read_to_lines has returned, with lines or with an error, no handle is open.
C7_HandleReleased ==
    /\ handles <= 1
    /\ opens <= 1
    /\ pc \in {"loaded", "header", "rows", "Done", "Failed"} => handles = 0

C7_Witness ==
    /\ pc = "Failed"
    /\ result.kind = "CouldNotParseLine"
    /\ opens = 1
    /\ handles = 0

\* C8: every call returns, with a table or with an error.
C8_Terminates == <>(pc \in {"Done", "Failed"})

\* The number of lines of a file, counted on its bytes.
FileLineCount(b) ==
    Cardinality({k \in 1..Len(b) : b[k] = Newline})
        + (IF b # <<>> /\ b[Len(b)] # Newline THEN 1 ELSE 0)

\* The line of the file that holds its first undecodable byte.
FirstBadLine(b) ==
    LET p == CHOOSE k \in 1..Len(b) :
                b[k] = BadByte /\ \A j \in 1..(k - 1) : b[j] # BadByte
    IN Cardinality({k \in 1..(p - 1) : b[k] = Newline}) + 1

\* C9: read_to_lines returns the lines of the file, one entry each, in file
\* order and without their newlines; if a line does not decode the call fails
\* with CouldNotParseLine carrying the error of the first such line, no line
\* list is returned and no later stage replaces the error.
C9_AllOrNothing ==
    (fsKind = "file" /\ ~Loading) =>
        IF Decodable(bytes)
        THEN /\ Len(lines) = FileLineCount(bytes)
             /\ \A k \in 1..Len(lines) :
                   \A c \in 1..Len(lines[k]) : lines[k][c] # Newline
             /\ bytes \in {JoinWith(lines, Newline),
                           JoinWith(lines, Newline) \o <<Newline>>}
             /\ result.kind \notin LoadErrors
        ELSE /\ pc = "Failed"
             /\ result = [Err("CouldNotParseLine") EXCEPT
                            !.cause = <<"InvalidData">>,
                            !.src = FirstBadLine(bytes)]
             /\ lines = <<>>

\* Two lines fail to decode, the first of them is not the first line.
C9_Witness ==
    /\ result.kind = "CouldNotParseLine"
    /\ result.src = 2
    /\ Cardinality({k \in 1..Len(raw) : ~raw[k].ok}) >= 2

\* C10: every line has at least one token; an empty data line is a row of
\* one empty token, so the call fails on it with CouldNotParseValue("") when
\* T does not read "" and with LineTooShort{i, 1} when T does and the header
\* has several fields; a table is never returned over an empty data line in
\* either case; headers have at least one field, length errors report at
\* least one entry, LineTooShort needs a header of two fields or more.
C10_BlankLines ==
    /\ \A k \in 1..Len(lines) : Len(Split(lines[k])) >= 1
    /\ pc \in {"rows", "Done"} => Len(header) >= 1
    /\ result.kind = "Ok" => Len(result.header) >= 1
    /\ result.kind \in {"LineTooShort", "LineTooLong"} => result.num_entries >= 1
    /\ result.kind = "LineTooShort" => Len(header) >= 2
    /\ (result.kind = "Ok" /\ \E k \in 2..Len(lines) : lines[k] = <<>>) =>
         (CanParse(T, <<>>) /\ Len(result.header) = 1)
    /\ (result.kind \in RowErrors /\ lines[i + 1] = <<>>) =>
         IF ~CanParse(T, <<>>)
         THEN result = Err("CouldNotParseValue")
         ELSE result = [Err("LineTooShort") EXCEPT !.line_num = i, !.num_entries = 1]

C10_Witness ==
    /\ result.kind = "LineTooShort"
    /\ result.num_entries = 1
    /\ lines[i + 1] = <<>>

====
